---- MODULE Spec2Model ----
(***************************************************************************)
(* A model of the expression-generation and safe-execution pipeline of the *)
(* CFMS chat bot: the query fingerprinter and the oracle client            *)
(* (src/src/llm_engine.py), the response extractor (src/src/utils.py), the *)
(* execution engine (src/src/execution.py) and the /ask handler            *)
(* (src/main.py).                                                          *)
(*                                                                         *)
(* Text is modelled as a sequence of one-character strings, so that        *)
(* trimming, case folding, prefix tests and concatenation are computed.    *)
(***************************************************************************)
EXTENDS Integers, Sequences, FiniteSets, TLC

VARIABLES
    keyIn,        \* the two (schema_json, question) pairs handed to get_cache_key
    keyOut,       \* the two fingerprints get_cache_key returned for them
    CODE_CACHE,   \* llm_engine.CODE_CACHE: fingerprint -> cached reply
    inflight,     \* per worker thread: the call_gemini_json call it is inside
    lastCall,     \* record of the call_gemini_json call that returned last
    HAS_DUCKDB,   \* execution.HAS_DUCKDB: whether `import duckdb` succeeded
    sessionDf,    \* the DataFrame object held by the session, SESSION_STORE[sid]["df"]
    openCons,     \* DuckDB connections created by safe_exec and not released yet
    DOWNLOAD_STORE, \* data_manager.DOWNLOAD_STORE: number of saved results
    execLog,      \* record of the safe_exec call that returned last
    askLog        \* record of the ask_question request that returned last

keyVars == <<keyIn, keyOut>>
oracleVars == <<CODE_CACHE, inflight, lastCall>>
askVars == <<HAS_DUCKDB, sessionDf, openCons, DOWNLOAD_STORE, execLog, askLog>>
vars == <<keyIn, keyOut, CODE_CACHE, inflight, lastCall,
          HAS_DUCKDB, sessionDf, openCons, DOWNLOAD_STORE, execLog, askLog>>

(***************************************************************************)
(* Bounds of the model.                                                    *)
(***************************************************************************)
MaxQLen == 2      \* longest question text drawn for get_cache_key
MaxOpenCons == 2  \* unreleased DuckDB connections the model lets pile up
MaxDownloads == 2 \* saved results the model lets pile up in DOWNLOAD_STORE

(***************************************************************************)
(* Text helpers: Python's str.strip, str.lower and str.startswith.         *)
(***************************************************************************)
None == "None"

Whitespace == {" ", "\t", "\n"}

UpperCase == {"A", "S", "Q", "L"}

LowerChar(c) ==
    CASE c = "A" -> "a"
      [] c = "S" -> "s"
      [] c = "Q" -> "q"
      [] c = "L" -> "l"
      [] OTHER -> c

lower(s) == [i \in 1..Len(s) |-> LowerChar(s[i])]

RECURSIVE lstrip(_)
lstrip(s) ==
    IF s # <<>> /\ Head(s) \in Whitespace THEN lstrip(Tail(s)) ELSE s

RECURSIVE rstrip(_)
rstrip(s) ==
    IF s # <<>> /\ s[Len(s)] \in Whitespace
    THEN rstrip(SubSeq(s, 1, Len(s) - 1))
    ELSE s

strip(s) == rstrip(lstrip(s))

startswith(s, p) == Len(s) >= Len(p) /\ SubSeq(s, 1, Len(p)) = p

RECURSIVE Concat(_)
Concat(ss) == IF ss = <<>> THEN <<>> ELSE Head(ss) \o Concat(Tail(ss))

RECURSIVE StringsUpTo(_, _)
StringsUpTo(alphabet, n) ==
    IF n = 0 THEN {<<>>}
    ELSE LET shorter == StringsUpTo(alphabet, n - 1)
         IN shorter \cup {Append(s, c) : s \in shorter, c \in alphabet}

(***************************************************************************)
(* Schema descriptor: json.dumps(schema, separators=(",", ":")) of the     *)
(* list of {"name", "dtype", "sample"} entries, one per column.            *)
(***************************************************************************)
JsonEscapeChar(c) ==
    IF c = "\"" THEN <<"\\", "\"">>
    ELSE IF c = "\\" THEN <<"\\", "\\">>
    ELSE <<c>>

RECURSIVE JsonEscape(_)
JsonEscape(s) ==
    IF s = <<>> THEN <<>> ELSE JsonEscapeChar(Head(s)) \o JsonEscape(Tail(s))

JsonString(s) == <<"\"">> \o JsonEscape(s) \o <<"\"">>

JsonColumn(col) ==
    Concat(<< <<"{">>,
              JsonString(<<"n", "a", "m", "e">>), <<":">>, JsonString(col.name), <<",">>,
              JsonString(<<"d", "t", "y", "p", "e">>), <<":">>, JsonString(col.dtype), <<",">>,
              JsonString(<<"s", "a", "m", "p", "l", "e">>), <<":">>, JsonString(col.sample),
              <<"}">> >>)

RECURSIVE JsonColumns(_)
JsonColumns(schema) ==
    IF schema = <<>> THEN <<>>
    ELSE IF Len(schema) = 1 THEN JsonColumn(schema[1])
    ELSE JsonColumn(Head(schema)) \o <<",">> \o JsonColumns(Tail(schema))

schema_json(schema) == <<"[">> \o JsonColumns(schema) \o <<"]">>

\* Column entries of the sessions the model draws: normalized names, pandas
\* dtypes, and samples that contain the characters the fingerprint's
\* separator and the JSON framing are made of.
ColA(sample) == [name |-> <<"a">>, dtype |-> <<"O">>, sample |-> sample]

ColB == [name |-> <<"b">>, dtype |-> <<"i", "8">>, sample |-> <<"1">>]

Schemas ==
    { <<>>,
      <<ColA(<<>>)>>,
      <<ColA(<<":", ":">>)>>,
      <<ColA(<<"]", ":", ":", "a">>)>>,
      <<ColA(<<"\"", "}", "]">>)>>,
      <<ColA(<<>>), ColB>> }

QuestionAlphabet == {"a", "A", " ", ":"}

Questions == StringsUpTo(QuestionAlphabet, MaxQLen)

(***************************************************************************)
(* Query fingerprinter.  hashlib.md5(...).hexdigest() is treated as an     *)
(* injective tagging of the hashed text.                                   *)
(***************************************************************************)
md5_hexdigest(raw) == <<"md5", raw>>

get_cache_key_nofold(schema, question) ==
    md5_hexdigest(schema \o <<":", ":">> \o strip(question))

get_cache_key(schema, question) ==
    md5_hexdigest(schema \o <<":", ":">> \o lower(strip(question)))

KeyInit ==
    /\ keyIn \in [1..2 -> {[schema |-> schema_json(s), question |-> <<>>] : s \in Schemas}]
    /\ keyOut = <<>>

KeyParked ==
    /\ keyIn = <<>>
    /\ keyOut = <<>>

\* ask_question fingerprints the question of each of two requests.
Fingerprint ==
    /\ keyOut = <<>>
    /\ \E q1, q2 \in Questions :
        /\ keyIn' = [i \in 1..2 |->
                        [keyIn[i] EXCEPT !.question = IF i = 1 THEN q1 ELSE q2]]
        /\ keyOut' = [i \in 1..2 |->
                        get_cache_key(keyIn[i].schema, IF i = 1 THEN q1 ELSE q2)]
    /\ UNCHANGED <<oracleVars, askVars>>


(***************************************************************************)
(* Oracle client: call_gemini_json and its response cache.                 *)
(*                                                                         *)
(* A JSON value is [type, members, id]: members are the words w for which  *)
(* Python's `w in value` is true (the keys of an object, the elements of   *)
(* an array, the substrings of a string); id tells two replies of the same *)
(* shape apart.                                                            *)
(***************************************************************************)
Threads == {"t1", "t2"}

Urls == {"u1", "u2"}

Prompts == {"p1", "p2"}

\* schema_fingerprint arguments: the default None, the empty string, and two digests.
FingerprintArgs == {None, "", "k1", "k2"}

Truthy(fp) == fp \notin {None, ""}

JsonValue(type, members, id) == [type |-> type, members |-> members, id |-> id]

Bodies ==
    { JsonValue("dict", {"candidates"}, 1),
      JsonValue("dict", {"candidates"}, 2),
      JsonValue("dict", {"error"}, 1),
      JsonValue("dict", {}, 1),
      JsonValue("str", {"candidates"}, 1),
      JsonValue("null", {}, 1),
      JsonValue("invalid", {}, 1) }       \* a body r.json() cannot decode

NoBody == JsonValue("none", {}, 0)

\* What session.post does: raise a connection error, raise a timeout, or
\* return a response with a status and a body.
Outcomes ==
    { [kind |-> k, status |-> 0, body |-> NoBody] : k \in {"ConnectionError", "Timeout"} }
    \cup [kind : {"response"}, status : {200, 500}, body : Bodies]

NoOutcome == [kind |-> "none", status |-> 0, body |-> NoBody]

\* {"error": str(e)}
ErrorReply == JsonValue("dict", {"error"}, 0)

\* `word in value`: defined for containers, a TypeError for the rest.
InRaises(value) == value.type \notin {"dict", "list", "str"}

In(word, value) == word \in value.members

CachePut(cache, fp, value) ==
    [k \in DOMAIN cache \cup {fp} |-> IF k = fp THEN value ELSE cache[k]]

\* llm_engine.py line 25: the cache test looks at the fingerprint alone.
CacheHit_ByUrl(cache, fp, url) == Truthy(fp) /\ fp \in DOMAIN cache /\ url = "u1"

CacheHit(cache, fp, url) == Truthy(fp) /\ fp \in DOMAIN cache

\* llm_engine.py line 38: the condition under which the reply is stored.
\* Evaluating it raises when the fingerprint is truthy and the reply is no container.
StoresReply(fp, resp_json) == Truthy(fp) /\ In("candidates", resp_json)

StoreTestRaises(fp, resp_json) == Truthy(fp) /\ InRaises(resp_json)

\* The try block of call_gemini_json once session.post has finished with
\* `outcome`: the value returned and the cache afterwards.
TryBlock(cache, fp, outcome) ==
    IF outcome.kind # "response" \/ outcome.body.type = "invalid"
       \/ StoreTestRaises(fp, outcome.body)
    THEN [ret |-> ErrorReply, cache |-> cache]
    ELSE [ret |-> outcome.body,
          cache |-> IF StoresReply(fp, outcome.body)
                    THEN CachePut(cache, fp, outcome.body)
                    ELSE cache]

Idle == [pc |-> "idle", fp |-> None, cachedAtCall |-> FALSE]

OracleInit ==
    /\ CODE_CACHE = <<>>
    /\ inflight = [t \in Threads |-> Idle]
    /\ lastCall = [done |-> FALSE, fp |-> None,
                   cachedAtCall |-> FALSE, cachedValue |-> NoBody,
                   posted |-> FALSE, outcome |-> NoOutcome, ret |-> NoBody]

OracleParked == OracleInit

\* call_gemini_json up to the point where it blocks in session.post
\* (lines 25-34), or to its return on a cache hit (line 27).
Call(t, url, prompt, fp) ==
    /\ inflight[t].pc = "idle"
    /\ IF CacheHit(CODE_CACHE, fp, url)
       THEN /\ lastCall' = [done |-> TRUE, fp |-> fp,
                            cachedAtCall |-> TRUE, cachedValue |-> CODE_CACHE[fp],
                            posted |-> FALSE, outcome |-> NoOutcome,
                            ret |-> CODE_CACHE[fp]]
            /\ UNCHANGED inflight
       ELSE /\ inflight' = [inflight EXCEPT ![t] =
                              [pc |-> "post", fp |-> fp,
                               cachedAtCall |-> fp \in DOMAIN CODE_CACHE]]
            /\ UNCHANGED lastCall
    /\ UNCHANGED <<CODE_CACHE, keyVars, askVars>>

\* session.post finishes with `outcome`; the rest of the try block and the
\* except clause run (lines 34-43) and the call returns.
Respond(t, outcome) ==
    /\ inflight[t].pc = "post"
    /\ LET call == inflight[t]
           done == TryBlock(CODE_CACHE, call.fp, outcome)
       IN /\ CODE_CACHE' = done.cache
          /\ lastCall' = [done |-> TRUE, fp |-> call.fp,
                          cachedAtCall |-> call.cachedAtCall,
                          cachedValue |-> IF call.cachedAtCall
                                          THEN CODE_CACHE[call.fp] ELSE NoBody,
                          posted |-> TRUE, outcome |-> outcome, ret |-> done.ret]
    /\ inflight' = [inflight EXCEPT ![t] = Idle]
    /\ UNCHANGED <<keyVars, askVars>>

OracleNext ==
    \/ \E t \in Threads, url \in Urls, prompt \in Prompts, fp \in FingerprintArgs :
          Call(t, url, prompt, fp)
    \/ \E t \in Threads, outcome \in Outcomes : Respond(t, outcome)


(***************************************************************************)
(* Execution engine: the session's dataset.                                *)
(*                                                                         *)
(* A dataset is the list of its `amount` cells, the set of columns added   *)
(* to the two it was loaded with, and whether DuckDB accepts it in         *)
(* con.register.                                                           *)
(***************************************************************************)
Dataset(amounts, registers) ==
    [amounts |-> amounts, added |-> {}, registers |-> registers]

Datasets ==
    { Dataset(a, r) : a \in {<<>>, <<3>>, <<1, 2>>}, r \in BOOLEAN }

nrows(df) == Len(df.amounts)

ncols(df) == Cardinality({"amount", "city"} \cup df.added)

RECURSIVE SumSeq(_)
SumSeq(xs) == IF xs = <<>> THEN 0 ELSE Head(xs) + SumSeq(Tail(xs))

(***************************************************************************)
(* Python values.                                                          *)
(***************************************************************************)
PyNone == [type |-> "NoneType"]

PyFloat(v) == [type |-> "float", v |-> v]

PyStr(text) == [type |-> "str", text |-> text]

PyObj(type) == [type |-> type]          \* a module, a function, a Figure

\* The session's DataFrame object itself, as it is at the moment.
SessionFrame(df) ==
    [type |-> "DataFrame", obj |-> "session", nrows |-> nrows(df), ncols |-> ncols(df)]

\* A DataFrame or Series built by the evaluated code or by DuckDB.
NewFrame(rows, cols, cell) ==
    [type |-> "DataFrame", obj |-> "new", nrows |-> rows, ncols |-> cols, cell |-> cell]

NewSeries(rows) == [type |-> "Series", nrows |-> rows]

Min(a, b) == IF a < b THEN a ELSE b

(***************************************************************************)
(* The bindings of the evaluated text: local_env, a dict in insertion      *)
(* order, and the builtins Python adds to the empty globals dict.          *)
(***************************************************************************)
local_env(df) ==
    << [name |-> "df", value |-> SessionFrame(df)],
       [name |-> "pd", value |-> PyObj("module")],
       [name |-> "np", value |-> PyObj("module")],
       [name |-> "plt", value |-> PyObj("module")],
       [name |-> "re", value |-> PyObj("module")],
       [name |-> "fuzzy_filter", value |-> PyObj("function")] >>

\* eval(expr, {}, local_env): Python inserts __builtins__ into the globals.
Builtins == {"__import__", "print", "open", "input", "compile"}

EnvNames(env) == {env[i].name : i \in 1..Len(env)}

EnvGet(env, name) == env[CHOOSE i \in 1..Len(env) : env[i].name = name].value

\* dict item assignment: a key that exists keeps its position.
EnvSet(env, name, value) ==
    IF name \in EnvNames(env)
    THEN [i \in 1..Len(env) |->
            IF env[i].name = name THEN [name |-> name, value |-> value] ELSE env[i]]
    ELSE Append(env, [name |-> name, value |-> value])

(***************************************************************************)
(* The evaluated text.  A text is a sequence of atoms: single characters   *)
(* (whitespace and the letters of the sql: prefix) and one atom per piece  *)
(* of source code or prose.  A piece of code parses to statements; a       *)
(* statement is a list of primitive steps, bound to `target` if it is an   *)
(* assignment.                                                             *)
(***************************************************************************)
Stmt(target, steps) == [target |-> target, steps |-> steps]

Program(text, syntax, stmts) == [text |-> text, syntax |-> syntax, stmts |-> stmts]

\* syntax "expr": a single expression (eval and exec both compile it);
\* syntax "stmts": statements (only exec compiles them).
Programs ==
    { Program(<<"df['amount'].sum()">>, "expr", <<Stmt("", <<"sum">>)>>),
      Program(<<"x = df['amount'].sum()">>, "stmts", <<Stmt("x", <<"sum">>)>>),
      Program(<<"df.head()">>, "expr", <<Stmt("", <<"head">>)>>),
      Program(<<"t = df.head()">>, "stmts", <<Stmt("t", <<"head">>)>>),
      Program(<<"df['amount']">>, "expr", <<Stmt("", <<"column">>)>>),
      Program(<<"fuzzy_filter(df, 'city', 'Bangalor')">>, "expr", <<Stmt("", <<"fuzzy">>)>>),
      Program(<<"pd.to_numeric(df['amount'])">>, "expr", <<Stmt("", <<"to_numeric">>)>>),
      Program(<<"plt.figure()">>, "expr", <<Stmt("", <<"figure">>)>>),
      Program(<<"__import__('os').getcwd()">>, "expr", <<Stmt("", <<"getcwd">>)>>),
      Program(<<"import os">>, "stmts", <<Stmt("os", <<"import">>)>>),
      Program(<<"print(df)">>, "expr", <<Stmt("", <<"print">>)>>),
      Program(<<"foo">>, "expr", <<Stmt("", <<"foo">>)>>),
      Program(<<"df.query('amount >')">>, "expr", <<Stmt("", <<"query">>)>>),
      Program(<<"compile('(', 'f', 'eval')">>, "expr", <<Stmt("", <<"compile">>)>>),
      Program(<<"df = df['amount'].sum()">>, "stmts", <<Stmt("df", <<"sum">>)>>),
      Program(<<"(df.drop(df.index[0], inplace=True), 1/0)">>, "expr",
              <<Stmt("", <<"drop", "div0">>)>>),
      Program(<<"df['flag'] = 1">>, "stmts", <<Stmt("", <<"setcol">>)>>),
      Program(<<>>, "stmts", <<>>) }

\* compile(): the statements of a text, or a syntax error for any text
\* that is no Python: prose, a bare SQL query, a text with a sql: prefix.
PyParse(text) ==
    IF \E p \in Programs : p.text = text
    THEN CHOOSE p \in Programs : p.text = text
    ELSE Program(text, "invalid", <<>>)

\* The names a primitive step looks up.
PrimNames(prim) ==
    CASE prim \in {"sum", "head", "column", "query", "drop", "setcol"} -> {"df"}
      [] prim = "fuzzy" -> {"fuzzy_filter", "df"}
      [] prim = "to_numeric" -> {"pd", "df"}
      [] prim = "figure" -> {"plt"}
      [] prim \in {"getcwd", "import"} -> {"__import__"}
      [] prim = "print" -> {"print", "df"}
      [] prim = "compile" -> {"compile"}
      [] prim = "foo" -> {"foo"}
      [] OTHER -> {}

\* The state of a run: the bindings, the session's dataset, the exception
\* raised (or ""), the value of the last step, what was printed, the names
\* that were resolved, and how many steps ran.
Started(env, df) ==
    [env |-> env, df |-> df, exc |-> "", value |-> PyNone, out |-> <<>>,
     resolved |-> {}, steps |-> 0]

Raise(st, kind) == [st EXCEPT !.exc = kind, !.value = PyNone]

Bound(env) == EnvNames(env) \cup Builtins

\* Looking the names of a step up, and counting the step as run.
Lookup(st, names) ==
    [st EXCEPT !.resolved = @ \cup (names \cap Bound(st.env)), !.steps = @ + 1]

PrimEffect(prim, st) ==
    CASE prim = "sum" -> [st EXCEPT !.value = PyFloat(SumSeq(st.df.amounts))]
      [] prim = "head" ->
            [st EXCEPT !.value = NewFrame(Min(nrows(st.df), 5), ncols(st.df), 0)]
      [] prim = "fuzzy" -> [st EXCEPT !.value = NewFrame(0, ncols(st.df), 0)]
      [] prim \in {"column", "to_numeric"} ->
            [st EXCEPT !.value = NewSeries(nrows(st.df))]
      [] prim = "figure" -> [st EXCEPT !.value = PyObj("Figure")]
      [] prim = "getcwd" -> [st EXCEPT !.value = PyStr(<<"/app">>)]
      [] prim = "import" -> [st EXCEPT !.value = PyObj("module")]
      [] prim = "print" -> [st EXCEPT !.value = PyNone, !.out = Append(@, "df")]
      [] prim \in {"query", "compile"} -> Raise(st, "SyntaxError")
      [] prim = "div0" -> Raise(st, "ZeroDivisionError")
      [] prim = "drop" ->
            IF st.df.amounts = <<>> THEN Raise(st, "IndexError")
            ELSE [st EXCEPT !.df.amounts = Tail(@), !.value = PyNone]
      [] prim = "setcol" ->
            [st EXCEPT !.df.added = @ \cup {"flag"}, !.value = PyNone]
      [] OTHER -> Raise(st, "NameError")

RunLooked(prim, st, names) ==
    IF ~(names \subseteq Bound(st.env)) THEN Raise(st, "NameError")
    ELSE IF "df" \in names /\ EnvGet(st.env, "df").type # "DataFrame"
    THEN Raise(st, "TypeError")
    ELSE PrimEffect(prim, st)

RunPrim(prim, st) == RunLooked(prim, Lookup(st, PrimNames(prim)), PrimNames(prim))

RECURSIVE RunSteps(_, _)
RunSteps(steps, st) ==
    IF steps = <<>> \/ st.exc # "" THEN st
    ELSE RunSteps(Tail(steps), RunPrim(Head(steps), st))

\* The env always shows the session's DataFrame as it is now.
Refresh(st) ==
    [st EXCEPT !.env = [i \in 1..Len(@) |->
        IF @[i].value.type = "DataFrame" /\ @[i].value.obj = "session"
        THEN [name |-> @[i].name, value |-> SessionFrame(st.df)]
        ELSE @[i]]]

\* An assignment binds the value of its steps to its target.
BindTarget(stmt, after) ==
    IF after.exc # "" \/ stmt.target = "" THEN after
    ELSE [after EXCEPT !.env = EnvSet(@, stmt.target, after.value)]

RunStmt(stmt, st) == BindTarget(stmt, Refresh(RunSteps(stmt.steps, st)))

RECURSIVE RunStmts(_, _)
RunStmts(stmts, st) ==
    IF stmts = <<>> \/ st.exc # "" THEN st
    ELSE RunStmts(Tail(stmts), RunStmt(Head(stmts), st))

\* An expr value: a text, or a JSON value of another type.
ExprText(text) == [isStr |-> TRUE, text |-> text]

ExprNonStr == [isStr |-> FALSE, text |-> <<"5">>]

\* Leading spaces or tabs before code: eval skips them, exec rejects them.
Indented(text) ==
    text # <<>> /\ Head(text) \in {" ", "\t"} /\ strip(text) # <<>>

EvalParsed(program, st) ==
    IF program.syntax # "expr" THEN Raise(st, "SyntaxError")
    ELSE RunStmts(program.stmts, st)

ExecParsed(program, indented, st) ==
    IF indented \/ program.syntax = "invalid" THEN Raise(st, "SyntaxError")
    ELSE RunStmts(program.stmts, st)

\* eval(expr, {}, local_env), continuing from run state st.
py_eval(expr, st) ==
    IF ~expr.isStr THEN Raise(st, "TypeError")
    ELSE EvalParsed(PyParse(strip(expr.text)), st)

\* exec(expr, {}, local_env), continuing from run state st.
py_exec(expr, st) ==
    IF ~expr.isStr THEN Raise(st, "TypeError")
    ELSE ExecParsed(PyParse(strip(expr.text)), Indented(expr.text), st)

(***************************************************************************)
(* safe_exec.                                                              *)
(***************************************************************************)
NoError == [kind |-> "None", exc |-> ""]

ErrUnsupported == [kind |-> "SQL requested but DuckDB is not installed/available.",
                   exc |-> ""]

ErrSql(exc) == [kind |-> "SQL Execution Error", exc |-> exc]

ErrTraceback(exc) == [kind |-> "Traceback", exc |-> exc]

NoValueMarker == PyStr(<<"Code executed successfully (no return value)">>)

SqlPrefix == <<"s", "q", "l", ":">>

\* Line 23 without the lower(): a prefix in another case is no sql prefix.
IsSqlMode_CaseSensitive(expr) == expr.isStr /\ startswith(strip(expr.text), SqlPrefix)

IsSqlMode(expr) == expr.isStr /\ startswith(lower(strip(expr.text)), SqlPrefix)

\* expr.strip()[4:].strip()
sql_query(expr) ==
    LET t == strip(expr.text) IN strip(SubSeq(t, Len(SqlPrefix) + 1, Len(t)))

\* con.execute(sql_query).df() on a connection that has df as table odata.
QueryRun(query, df) ==
    CASE query = <<"SELECT COUNT(*) FROM odata">> ->
            [exc |-> "", value |-> NewFrame(1, 1, nrows(df))]
      [] query = <<"SELECT * FROM odata">> ->
            [exc |-> "", value |-> NewFrame(nrows(df), ncols(df), 0)]
      [] query = <<"SELECT * FROM nonexistent">> ->
            [exc |-> "CatalogException", value |-> PyNone]
      [] OTHER -> [exc |-> "ParserException", value |-> PyNone]

ExecResult(result, error, stdout, df, mode, opened, closed, resolved, evalSteps, execSteps) ==
    [result |-> result, error |-> error, stdout |-> stdout, df |-> df, mode |-> mode,
     opened |-> opened, closed |-> closed, resolved |-> resolved,
     evalSteps |-> evalSteps, execSteps |-> execSteps]

\* Lines 31-47: the try block of SQL mode.  con.close() is reached only
\* when register and execute raised nothing.
QueryDone(query, df, run) ==
    IF ~df.registers
    THEN ExecResult(PyNone, ErrSql("InvalidInputException"), <<>>, df, "query",
                    1, 0, {}, 0, 0)
    ELSE IF run.exc # ""
    THEN ExecResult(PyNone, ErrSql(run.exc), <<>>, df, "query", 1, 0, {}, 0, 0)
    ELSE ExecResult(run.value, NoError, <<"Executed SQL">> \o query, df,
                    "query", 1, 1, {}, 0, 0)

QueryOn(query, df) == QueryDone(query, df, QueryRun(query, df))

QueryMode(expr, df) == QueryOn(sql_query(expr), df)

\* Lines 73-76: the first DataFrame, Series or Figure of reversed(local_env.items()).
RECURSIVE ScanBindings(_, _)
ScanBindings(env, i) ==
    IF i = 0 THEN PyNone
    ELSE IF env[i].value.type \in {"DataFrame", "Series", "Figure"} THEN env[i].value
    ELSE ScanBindings(env, i - 1)

\* Lines 80-85: the exception kinds the first except clause turns into a
\* conversational text result.
IsTextFallback(after) == after.exc = "SyntaxError"

\* Lines 73-78: exec raised nothing; the result is the scanned binding.
Scanned(ex, evalSteps, found) ==
    ExecResult(IF found = PyNone THEN NoValueMarker ELSE found,
               NoError, ex.out, ex.df, "computation", 0, 0,
               ex.resolved, evalSteps, ex.steps - evalSteps)

\* Lines 70-91: what follows the exec of the inner except clause.
AfterExec(expr, evalSteps, ex) ==
    IF ex.exc = "" THEN Scanned(ex, evalSteps, ScanBindings(ex.env, Len(ex.env)))
    ELSE IF IsTextFallback(ex)
    THEN ExecResult(PyStr(expr.text), NoError, ex.out, ex.df, "computation", 0, 0,
                    ex.resolved, evalSteps, ex.steps - evalSteps)
    ELSE ExecResult(PyNone, ErrTraceback(ex.exc), ex.out, ex.df, "computation", 0, 0,
                    ex.resolved, evalSteps, ex.steps - evalSteps)

\* Lines 66-70: eval first; when it raises, exec runs the same text on
\* what eval left behind.
AfterEval(expr, ev) ==
    IF ev.exc = ""
    THEN ExecResult(ev.value, NoError, ev.out, ev.df, "computation", 0, 0,
                    ev.resolved, ev.steps, 0)
    ELSE AfterExec(expr, ev.steps, py_exec(expr, [ev EXCEPT !.exc = "", !.value = PyNone]))

\* Lines 49-91: Python mode.
ComputationMode(expr, df) == AfterEval(expr, py_eval(expr, Started(local_env(df), df)))

safe_exec(expr, df, has_duckdb) ==
    IF IsSqlMode(expr)
    THEN IF ~has_duckdb
         THEN ExecResult(PyNone, ErrUnsupported, <<>>, df, "unsupported", 0, 0, {}, 0, 0)
         ELSE QueryMode(expr, df)
    ELSE ComputationMode(expr, df)

(***************************************************************************)
(* Response extractor.                                                     *)
(*                                                                         *)
(* The text of a reply is a sequence of segments: code-fence markers,      *)
(* whitespace, prose, and brace-delimited object literals.  An object      *)
(* literal is quoted the JSON way ("double"), the Python way ("single"),   *)
(* is a Python set literal ("set"), or is malformed ("bare").              *)
(***************************************************************************)
Seg(kind) == [kind |-> kind, quote |-> "", items |-> <<>>]

Object(quote, items) == [kind |-> "object", quote |-> quote, items |-> items]

Item(key, value) == [key |-> key, value |-> value]

\* The reply handed to extract_json_from_response, by the shape the
\* navigation of lines 49-68 tells apart, with the text it carries.
Reply(shape, text) == [shape |-> shape, text |-> text]

ReplyShapes ==
    { "content_dict",       \* candidates[0].content is a dict with parts
      "content_list",       \* candidates[0].content is a list of blocks
      "str_repr",           \* a str holding the repr of a content_dict reply
      "str",                \* any other str
      "no_candidates",      \* a dict without candidates, such as {"error": ...}
      "empty_candidates" }  \* candidates is an empty list: [0] raises

\* Lines 38-42: a str that looks like a Python dict is parsed as one.
Unstringify(resp) ==
    IF resp.shape = "str_repr" THEN Reply("content_dict", resp.text) ELSE resp

\* Lines 46-68: the text fragment, or a failure of the navigation.
NavigationRaises(resp) == resp.shape = "empty_candidates"

NavigatedText(resp) ==
    IF resp.shape \in {"content_dict", "content_list", "str"} THEN resp.text ELSE <<>>

RECURSIVE SegLStrip(_)
SegLStrip(text) ==
    IF text # <<>> /\ Head(text).kind = "ws" THEN SegLStrip(Tail(text)) ELSE text

RECURSIVE SegRStrip(_)
SegRStrip(text) ==
    IF text # <<>> /\ text[Len(text)].kind = "ws"
    THEN SegRStrip(SubSeq(text, 1, Len(text) - 1))
    ELSE text

SegStrip(text) == SegRStrip(SegLStrip(text))

\* Lines 71-72: re.sub(r"^```[a-zA-Z]*\s*", "", ...) and re.sub(r"\s*```$", "", ...).
StripFences(text) ==
    LET t1 == SegStrip(text)
        t2 == IF t1 # <<>> /\ Head(t1).kind = "fence" THEN SegLStrip(Tail(t1)) ELSE t1
        t3 == SegStrip(t2)
    IN IF t3 # <<>> /\ t3[Len(t3)].kind = "fence"
       THEN SegRStrip(SubSeq(t3, 1, Len(t3) - 1))
       ELSE t3

\* Line 75: re.search(r"\{.*\}", text, re.DOTALL), from the first opening
\* brace to the last closing brace.
ObjectPositions(text) == {i \in 1..Len(text) : text[i].kind = "object"}

JsonSpan(text) ==
    LET at == ObjectPositions(text)
        first == CHOOSE i \in at : \A j \in at : i <= j
        last == CHOOSE i \in at : \A j \in at : j <= i
    IN IF at = {} THEN <<>> ELSE SubSeq(text, first, last)

\* A parsed mapping: the keys and their values, the last of equal keys winning.
ParsedNone == [type |-> "NoneType", keys |-> {}, items |-> <<>>]

ParsedDict(items) ==
    [type |-> "dict", keys |-> {items[i].key : i \in 1..Len(items)}, items |-> items]

ParsedSet(items) == [type |-> "set", keys |-> {}, items |-> items]

DictGet(parsed, key, default) ==
    LET at == {i \in 1..Len(parsed.items) : parsed.items[i].key = key}
    IN IF at = {} THEN default
       ELSE parsed.items[CHOOSE i \in at : \A j \in at : j <= i].value

\* Lines 82-86: json.loads, then ast.literal_eval; a failure of both is
\* caught by the outer except and gives None.
ParseSpan(span) ==
    IF Len(span) # 1 THEN ParsedNone
    ELSE CASE span[1].quote \in {"double", "single"} -> ParsedDict(span[1].items)
           [] span[1].quote = "set" -> ParsedSet(span[1].items)
           [] OTHER -> ParsedNone

\* Lines 70-86 on the navigated text.
ParseText(text) == ParseSpan(JsonSpan(StripFences(text)))

Extract(resp) ==
    IF NavigationRaises(resp) THEN ParsedNone ELSE ParseText(NavigatedText(resp))

extract_json_from_response(resp) == Extract(Unstringify(resp))

\* `not parsed`
Falsy(parsed) == parsed.type = "NoneType" \/ parsed.items = <<>>

(***************************************************************************)
(* ask_question (src/main.py lines 153-235).                               *)
(***************************************************************************)
NoExec ==
    [called |-> FALSE, expr |-> ExprText(<<>>), dfBefore |-> Dataset(<<>>, TRUE),
     has_duckdb |-> FALSE,
     out |-> ExecResult(PyNone, NoError, <<>>, Dataset(<<>>, TRUE), "none",
                        0, 0, {}, 0, 0)]

CouldNotUnderstand == <<"Could not understand the question.">>

DefaultExplanation == PyStr(<<"Executed successfully.">>)

\* Lines 197-201 left out: every DataFrame stays a table.
Collapse_Never(result) == result

\* Lines 197-201: a 1x1 DataFrame is replaced by its only cell.
Collapse(result) ==
    IF result.type = "DataFrame" /\ result.nrows = 1 /\ result.ncols = 1
    THEN PyFloat(result.cell)
    ELSE result

\* Line 180: the test that sends a request to safe_exec.
Actionable(parsed) == ~Falsy(parsed) /\ "expr" \in parsed.keys

Response(raised, outcome, parsed, text, error, value, code, kind, download, exec, df) ==
    [raised |-> raised, outcome |-> outcome, parsed |-> parsed,
     answer |-> [text |-> text, error |-> error, value |-> value],
     generated_code |-> code, kind |-> kind, download |-> download,
     exec |-> exec, df |-> df]

ResultKind(result) ==
    IF result.type = "DataFrame" THEN "table"
    ELSE IF result.type = "Series" THEN "series"
    ELSE IF result.type = "NoneType" THEN "bare"
    ELSE "scalar"

\* Lines 193-235: the result, after the 1x1 collapse, goes to the table,
\* the series or the answer text.
Formatted(parsed, expr, explanation, log, df, result, kind) ==
    IF kind = "scalar" /\ explanation.type # "str"
    \* line 227: explanation.strip() on a value that is no str
    THEN Response(TRUE, "AttributeError", parsed, <<>>, NoError, PyNone, expr, kind,
                  FALSE, log, df)
    ELSE Response(FALSE, "answered", parsed,
                  IF explanation.type = "str" THEN explanation.text ELSE <<>>,
                  NoError, IF kind = "scalar" THEN result ELSE PyNone,
                  expr, kind, kind \in {"table", "series"}, log, df)

\* Lines 186-191.
Executed(parsed, expr, explanation, log, out) ==
    IF out.error # NoError
    THEN Response(FALSE, "error", parsed, <<"Error: ">>, out.error, PyNone, expr, "bare",
                  FALSE, log, out.df)
    ELSE Formatted(parsed, expr, explanation, log, out.df, Collapse(out.result),
                   ResultKind(Collapse(out.result)))

ExecLogged(expr, df, has_duckdb, out) ==
    [called |-> TRUE, expr |-> expr, dfBefore |-> df, has_duckdb |-> has_duckdb,
     out |-> out]

\* Lines 183-186.
Execute(parsed, expr, explanation, df, has_duckdb, out) ==
    Executed(parsed, expr, explanation, ExecLogged(expr, df, has_duckdb, out), out)

\* Lines 180-186.
Understood(parsed, df, has_duckdb) ==
    IF ~Actionable(parsed)
    THEN Response(FALSE, "not_understood", parsed, CouldNotUnderstand, NoError, PyNone,
                  ExprText(<<>>), "bare", FALSE, NoExec, df)
    ELSE Execute(parsed, DictGet(parsed, "expr", PyNone),
                 DictGet(parsed, "explain", DefaultExplanation), df, has_duckdb,
                 safe_exec(DictGet(parsed, "expr", PyNone), df, has_duckdb))

\* The response of ask_question to the oracle reply resp, with the record
\* of its safe_exec call and the dataset left behind.
ask_question(resp, df, has_duckdb) ==
    Understood(extract_json_from_response(resp), df, has_duckdb)

(***************************************************************************)
(* The oracle replies and the expressions the model draws.                 *)
(***************************************************************************)
QueryAtoms ==
    { "SELECT COUNT(*) FROM odata", "SELECT * FROM odata",
      "SELECT * FROM nonexistent", "SELEC" }

SqlTexts ==
    { SqlPrefix \o <<" ", q>> : q \in QueryAtoms }
    \cup { <<" ", "S", "Q", "L", ":", "SELECT COUNT(*) FROM odata", " ">>,
           <<"S", "q", "l", ":", " ", "SELECT * FROM odata">> }

OtherTexts ==
    { <<"only ask questions related to data please">>,
      <<"SELECT COUNT(*) FROM odata">>,
      <<"s", "q", "l", " ", ":", "SELECT COUNT(*) FROM odata">>,
      <<" ", "df.head()">>,
      <<"df.head()", " ">> }

Exprs ==
    { ExprText(p.text) : p \in Programs }
    \cup { ExprText(t) : t \in SqlTexts \cup OtherTexts }
    \cup { ExprNonStr }

Explain == Item("explain", PyStr(<<"The total is.">>))

SumExpr == ExprText(<<"df['amount'].sum()">>)

Directive == Object("double", <<Explain, Item("expr", SumExpr)>>)

Objects ==
    { Object("double", <<Explain, Item("expr", e)>>) : e \in Exprs }
    \cup { Object("double", <<Item("expr", SumExpr)>>),
           Object("double", <<Item("expr", ExprText(<<"df.head()">>))>>),
           Object("double", <<Explain>>),
           Object("double", <<>>),
           Object("double", <<Item("foo", PyFloat(1))>>),
           Object("double", <<Item("explain", PyNone), Item("expr", SumExpr)>>),
           Object("double", <<Item("explain", PyNone), Item("expr", ExprText(<<"df.head()">>))>>),
           Object("single", <<Explain, Item("expr", SumExpr)>>),
           Object("set", <<Item("", PyFloat(1))>>),
           Object("bare", <<Explain, Item("expr", SumExpr)>>) }

Replies ==
    { Reply("content_dict", <<o>>) : o \in Objects }
    \cup { Reply("content_dict", <<Seg("fence"), Seg("ws"), Directive, Seg("ws"), Seg("fence")>>),
           Reply("content_list", <<Seg("prose"), Seg("ws"), Directive, Seg("prose")>>),
           Reply("content_dict", <<Directive, Seg("prose"), Directive>>),
           Reply("content_dict", <<Seg("prose")>>),
           Reply("str_repr", <<Directive>>),
           Reply("str", <<Directive>>),
           Reply("str", <<Seg("prose")>>),
           Reply("no_candidates", <<>>),
           Reply("empty_candidates", <<>>) }

NoRequest ==
    [raised |-> FALSE, outcome |-> "none", parsed |-> ParsedNone,
     answer |-> [text |-> <<>>, error |-> NoError, value |-> PyNone],
     generated_code |-> ExprText(<<>>), kind |-> "bare", download |-> FALSE]

AskInit ==
    /\ HAS_DUCKDB \in BOOLEAN
    /\ sessionDf \in Datasets
    /\ openCons = 0
    /\ DOWNLOAD_STORE = 0
    /\ execLog = NoExec
    /\ askLog = NoRequest

AskParked ==
    /\ HAS_DUCKDB = TRUE
    /\ sessionDf = Dataset(<<>>, TRUE)
    /\ openCons = 0
    /\ DOWNLOAD_STORE = 0
    /\ execLog = NoExec
    /\ askLog = NoRequest

\* POST /ask for the session, the oracle answering with resp.
AskQuestion(resp) ==
    \E r \in {ask_question(resp, sessionDf, HAS_DUCKDB)} :
        /\ openCons + r.exec.out.opened - r.exec.out.closed <= MaxOpenCons
        /\ DOWNLOAD_STORE + (IF r.download THEN 1 ELSE 0) <= MaxDownloads
        /\ openCons' = openCons + r.exec.out.opened - r.exec.out.closed
        /\ DOWNLOAD_STORE' = DOWNLOAD_STORE + (IF r.download THEN 1 ELSE 0)
        /\ sessionDf' = r.df
        /\ execLog' = r.exec
        /\ askLog' = [raised |-> r.raised, outcome |-> r.outcome, parsed |-> r.parsed,
                      answer |-> r.answer, generated_code |-> r.generated_code,
                      kind |-> r.kind, download |-> r.download]
        /\ UNCHANGED <<HAS_DUCKDB, keyVars, oracleVars>>

\* The interpreter finalizes a connection object that safe_exec left
\* behind without closing it.
Finalize ==
    /\ openCons > 0
    /\ openCons' = openCons - 1
    /\ UNCHANGED <<HAS_DUCKDB, sessionDf, DOWNLOAD_STORE, execLog, askLog,
                   keyVars, oracleVars>>

AskNext ==
    \/ \E resp \in Replies : AskQuestion(resp)
    \/ Finalize

(***************************************************************************)
(* Specifications.                                                         *)
(***************************************************************************)
Init == AskInit /\ KeyParked /\ OracleParked

Next == AskNext

Spec == Init /\ [][Next]_vars

InitOracle == OracleInit /\ KeyParked /\ AskParked

SpecOracle == InitOracle /\ [][OracleNext]_vars

InitKey == KeyInit /\ OracleParked /\ AskParked

SpecKey == InitKey /\ [][Fingerprint]_vars

(***************************************************************************)
(* Claims about the oracle client.                                         *)
(***************************************************************************)
IsErrorTagged(reply) == reply.type = "dict" /\ "error" \in reply.members

\* The transport call succeeded: a response with a 2xx status and a body
\* that decodes.
Succeeded(outcome) ==
    /\ outcome.kind = "response"
    /\ outcome.status \in 200..299
    /\ outcome.body.type # "invalid"

\* C1: whatever the HTTP call does, a call that did not succeed (network
\* failure, timeout, non-2xx status, undecodable body) returns an
\* error-tagged reply.
C1_FailedCallReturnsErrorTaggedReply ==
    (lastCall.done /\ lastCall.posted /\ ~Succeeded(lastCall.outcome))
        => IsErrorTagged(lastCall.ret)

\* C2: a call whose fingerprint was a key of the cache when the call
\* started returns the cached value and makes no transport call.
C2_CacheHitReturnsCachedWithoutPost ==
    (lastCall.done /\ lastCall.cachedAtCall)
        => (~lastCall.posted /\ lastCall.ret = lastCall.cachedValue)

\* A call hit the cache while the other thread was blocked in a post.
C2_Witness ==
    /\ lastCall.done
    /\ lastCall.cachedAtCall
    /\ lastCall.fp = "k2"
    /\ lastCall.ret = JsonValue("dict", {"candidates"}, 2)
    /\ \E t \in Threads : inflight[t].pc = "post"

\* C3: the cache changes only when a call with a fingerprint succeeded and
\* its reply is an object with a "candidates" field.
C3_CacheChangesOnlyOnSuccessWithCandidates ==
    [][CODE_CACHE' # CODE_CACHE =>
          /\ lastCall'.posted
          /\ Truthy(lastCall'.fp)
          /\ Succeeded(lastCall'.outcome)
          /\ lastCall'.ret.type = "dict"
          /\ "candidates" \in lastCall'.ret.members]_vars

\* C4: two fingerprints are equal exactly when the schema descriptors are
\* equal and the trimmed, lower-cased questions are equal.
C4_KeyEqualIffSameSchemaAndFoldedQuestion ==
    keyOut # <<>> =>
        ( (keyOut[1] = keyOut[2])
          <=> ( /\ keyIn[1].schema = keyIn[2].schema
                /\ lower(strip(keyIn[1].question)) = lower(strip(keyIn[2].question)) ) )

\* Two questions that differ only in case and surrounding whitespace, on
\* the same schema whose sample holds the separator, got one fingerprint.
C4_Witness ==
    /\ keyOut # <<>>
    /\ keyIn[1].schema = schema_json(<<ColA(<<":", ":">>)>>)
    /\ keyIn[2].schema = keyIn[1].schema
    /\ keyIn[1].question = <<" ", "A">>
    /\ keyIn[2].question = <<"a", " ">>
    /\ keyOut[1] = keyOut[2]

(***************************************************************************)
(* Claims about the execution engine and the /ask handler.                 *)
(***************************************************************************)
HasSqlPrefix(expr) ==
    /\ expr.isStr
    /\ Len(strip(expr.text)) >= 4
    /\ lower(SubSeq(strip(expr.text), 1, 4)) = <<"s", "q", "l", ":">>

\* C5: an expression with the sql: prefix is handled by Query Mode alone
\* (an unsupported error without DuckDB, no Python evaluation even when the
\* query fails), and an expression without it never reaches DuckDB.
C5_RoutedByPrefixAlone ==
    execLog.called =>
        IF HasSqlPrefix(execLog.expr)
        THEN /\ execLog.out.mode \in {"query", "unsupported"}
             /\ execLog.out.evalSteps = 0 /\ execLog.out.execSteps = 0
             /\ execLog.out.resolved = {}
             /\ execLog.out.result.type \in {"NoneType", "DataFrame"}
             /\ ~execLog.has_duckdb =>
                    /\ execLog.out.error = ErrUnsupported
                    /\ execLog.out.opened = 0
             /\ execLog.has_duckdb => execLog.out.mode = "query"
        ELSE /\ execLog.out.mode = "computation"
             /\ execLog.out.opened = 0

\* An upper-case, space-padded sql: expression was refused without DuckDB.
C5_Witness ==
    /\ execLog.called
    /\ ~execLog.has_duckdb
    /\ execLog.expr = ExprText(<<" ", "S", "Q", "L", ":", "SELECT COUNT(*) FROM odata", " ">>)
    /\ execLog.out.error = ErrUnsupported

\* C6: a Query Mode call creates one connection and has released it when
\* it returns, so no connection is open between calls.
C6_ConnectionReleasedOnEveryPath ==
    /\ openCons = 0
    /\ (execLog.called /\ execLog.out.mode = "query") =>
            (execLog.out.opened = 1 /\ execLog.out.closed = 1)

\* C7: the evaluated text resolves no name but df and fuzzy_filter.
C7_OnlyDatasetAndHelperResolve ==
    (execLog.called /\ execLog.out.mode = "computation")
        => execLog.out.resolved \subseteq {"df", "fuzzy_filter"}

\* C8: the statement x = df['amount'].sum() gives the result that the
\* expression df['amount'].sum() gives on the same dataset.
C8_ScalarAssignmentGivesTheScalar ==
    (execLog.called /\ execLog.expr = ExprText(<<"x = df['amount'].sum()">>))
        => execLog.out.result
             = safe_exec(SumExpr, execLog.dfBefore, execLog.has_duckdb).result

\* C9: the expression text comes back as the result, without an error,
\* only when the text is no valid Python and so none of it ran.
C9_TextResultOnlyForInvalidSyntax ==
    ( /\ execLog.called
      /\ execLog.out.mode = "computation"
      /\ execLog.out.error = NoError
      /\ execLog.out.result = PyStr(execLog.expr.text) )
        => ( /\ execLog.out.evalSteps = 0 /\ execLog.out.execSteps = 0
             /\ \/ Indented(execLog.expr.text)
                \/ PyParse(strip(execLog.expr.text)).syntax = "invalid" )

\* C10: the extractor returns none or an object with explain and expr,
\* safe_exec is called only for a non-empty expr, and a reply that lacks a
\* key or has an empty expr is answered "could not understand".
HasBothKeys(parsed) == {"explain", "expr"} \subseteq parsed.keys

C10_OnlyCompleteDirectivesExecute ==
    askLog.outcome # "none" =>
        /\ askLog.parsed.type # "NoneType" => HasBothKeys(askLog.parsed)
        /\ execLog.called =>
              /\ HasBothKeys(askLog.parsed)
              /\ execLog.expr # ExprText(<<>>)
        /\ ( \/ ~HasBothKeys(askLog.parsed)
             \/ DictGet(askLog.parsed, "expr", PyNone) = ExprText(<<>>) )
              => (askLog.outcome = "not_understood" /\ ~execLog.called)
\* C11: no request ends in an exception: ask_question returns a structured
\* response for every oracle reply and every extracted expression.
C11_NoExceptionEscapes == ~askLog.raised

IsOneByOne(result) ==
    result.type = "DataFrame" /\ result.nrows = 1 /\ result.ncols = 1

TabularOrColumnar(result) ==
    result.type \in {"DataFrame", "Series"} /\ ~IsOneByOne(result)

\* C12: a request adds one download artifact exactly when execution gave,
\* without error, a table other than 1x1 or a series; a 1x1 table is
\* answered as the scalar of its cell, with no download.
C12_DownloadExactlyForTableOrSeries ==
    [][openCons' >= openCons =>
          /\ askLog'.download
                <=> ( /\ execLog'.called
                      /\ execLog'.out.error = NoError
                      /\ TabularOrColumnar(execLog'.out.result) )
          /\ DOWNLOAD_STORE' = DOWNLOAD_STORE + (IF askLog'.download THEN 1 ELSE 0)
          /\ ( /\ execLog'.called
               /\ execLog'.out.error = NoError
               /\ IsOneByOne(execLog'.out.result)
               /\ ~askLog'.raised )
                => ( /\ askLog'.kind = "scalar"
                     /\ askLog'.answer.value = PyFloat(execLog'.out.result.cell)
                     /\ ~askLog'.download )]_vars

\* After a table was stored for download, a 1x1 query result was answered
\* as a scalar and stored nothing.
C12_Witness ==
    /\ DOWNLOAD_STORE = 1
    /\ execLog.called
    /\ execLog.out.error = NoError
    /\ IsOneByOne(execLog.out.result)
    /\ askLog.kind = "scalar"
    /\ ~askLog.download

\* C13: the answer of a response never holds the trace of the exception
\* that made execution fail.
C13_AnswerNeverHoldsTraceback ==
    askLog.outcome = "error" => askLog.answer.error.kind # ErrTraceback("").kind

\* C14: no step of any interleaving of calls removes an entry of the cache
\* or replaces its value.
C14_CacheEntryNeverReplaced ==
    [][\A k \in DOMAIN CODE_CACHE :
          k \in DOMAIN CODE_CACHE' /\ CODE_CACHE'[k] = CODE_CACHE[k]]_vars

\* The name a statement introduces, reassigns or mutates ("" for none).
TouchedName(stmt) ==
    IF stmt.target # "" THEN stmt.target
    ELSE IF \E i \in 1..Len(stmt.steps) : stmt.steps[i] \in {"setcol", "drop"}
    THEN "df"
    ELSE ""

\* The value of the binding touched last, going back from statement i,
\* that is a DataFrame, a Series or a Figure; the marker if there is none.
RECURSIVE LastTouched(_, _, _)
LastTouched(stmts, env, i) ==
    IF i = 0 THEN NoValueMarker
    ELSE IF /\ TouchedName(stmts[i]) # ""
            /\ EnvGet(env, TouchedName(stmts[i])).type \in {"DataFrame", "Series", "Figure"}
    THEN EnvGet(env, TouchedName(stmts[i]))
    ELSE LastTouched(stmts, env, i - 1)

FellBackToStatements(log) ==
    /\ log.called
    /\ log.expr.isStr
    /\ log.out.mode = "computation"
    /\ log.out.error = NoError
    /\ ~Indented(log.expr.text)
    /\ PyParse(strip(log.expr.text)).syntax = "stmts"

\* C15: after the fallback to statement execution the result is the
\* DataFrame, Series or Figure of the binding the statements touched last,
\* and the "no return value" marker when they touched no such binding.
C15_ImplicitResultIsLastTouchedBinding ==
    FellBackToStatements(execLog) =>
        execLog.out.result
          = LastTouched(PyParse(strip(execLog.expr.text)).stmts,
                        RunStmts(PyParse(strip(execLog.expr.text)).stmts,
                                 Started(local_env(execLog.dfBefore), execLog.dfBefore)).env,
                        Len(PyParse(strip(execLog.expr.text)).stmts))

\* C16: no request changes the rows or the columns of the session's dataset.
C16_SessionDatasetUnchanged == [][sessionDf' = sessionDf]_vars

\* C17: within one call the text is not run both as a value expression and
\* as statements.
C17_TextRunAtMostOnce ==
    execLog.called => ~(execLog.out.evalSteps > 0 /\ execLog.out.execSteps > 0)

=============================================================================
